---- MODULE Spec2Model ----
(***************************************************************************)
(* Reservation admission, conflict detection and the reservation state     *)
(* machine of the parking-reservation core (src/core), running on the      *)
(* in-memory repositories (src/adapters/outgoing/persistence/in_memory.py).*)
(* SpecLifecycle runs the lifecycle calls step by step on the SQL          *)
(* repository (src/adapters/outgoing/persistence/postgres.py), which hands *)
(* out copies of the stored rows.                                          *)
(*                                                                         *)
(* Times are integers 0..MaxTime; a datetime is a point on that line.      *)
(* created_at / updated_at are wall-clock values that no operation reads;  *)
(* they are kept as counts of the writes to the reservation.               *)
(***************************************************************************)
EXTENDS Integers, FiniteSets, Sequences, TLC

\* ---------------------------------------------------------------- bounds
MaxRes  == 2    \* reservation ids are 1..MaxRes
MaxTime == 2    \* datetimes are 0..MaxTime

\* ------------------------------------------------------------ input sets
Users    == {"u1", "u2"}
SpaceIds == {"A1", "A2"}
Notes    == {"ok"}
Times    == 0..MaxTime
RIds     == 1..MaxRes
Procs    == {1, 2}
\* the spaces the administrator's add / update / remove calls are about
ManagedSpaceIds == {"A1"}
\* the users who reserve while lifecycle calls interleave
Owners == {"u1"}

\* ReservationStatus (models.py:11-17)
PENDING   == "pending"
CONFIRMED == "confirmed"
REJECTED  == "rejected"
CANCELLED == "cancelled"
ReservationStatus == {PENDING, CONFIRMED, REJECTED, CANCELLED}

\* Python's None
None == [none |-> TRUE]

VARIABLES
    reservations,   \* InMemoryReservationRepository._reservations
    spaces,         \* InMemoryParkingSpaceRepository._spaces
    result,         \* the last call: which operation, and how it ended
    pc,             \* per request: where an interleaved reserve call stands
    req             \* per request: the arguments of the reserve call in flight

vars == <<reservations, spaces, result, pc, req>>

\* ------------------------------------------------------- domain models
\* variant: only an end before the start is refused
TimeSlotValid_allows_empty(start_time, end_time) == ~(end_time < start_time)

\* TimeSlot.__post_init__: the constructor raises ValueError iff this is FALSE
TimeSlotValid(start_time, end_time) == ~(end_time <= start_time)

TimeSlot(start_time, end_time) ==
    [start_time |-> start_time, end_time |-> end_time]

ParkingSpace(space_id, is_available) ==
    [space_id |-> space_id, is_available |-> is_available]

\* variant: a new reservation starts out confirmed
Reservation_confirmed(reservation_id, user_id, space_id, time_slot) ==
    [reservation_id |-> reservation_id,
     user_id        |-> user_id,
     space_id       |-> space_id,
     time_slot      |-> time_slot,
     status         |-> CONFIRMED,
     admin_notes    |-> "",
     created_at     |-> 0,
     updated_at     |-> 0]

\* Reservation(user_id, space_id, time_slot) with the dataclass defaults.
\* Instants are counted per reservation: datetime.now() at construction is 0,
\* datetime.now() in a transition is one later than the updated_at it replaces.
Reservation(reservation_id, user_id, space_id, time_slot) ==
    [reservation_id |-> reservation_id,
     user_id        |-> user_id,
     space_id       |-> space_id,
     time_slot      |-> time_slot,
     status         |-> PENDING,
     admin_notes    |-> "",
     created_at     |-> 0,
     updated_at     |-> 0]

\* variant: approve leaves admin_notes as they were
approve_keeps_notes(r, admin_notes) ==
    [r EXCEPT !.status = CONFIRMED, !.updated_at = r.updated_at + 1]

\* variant: approving a confirmed reservation again is accepted
ApproveRaises_idempotent(r) == r.status \notin {PENDING, CONFIRMED}

\* Reservation.approve: the guard, and the object after the assignments
ApproveRaises(r) == r.status # PENDING
approve(r, admin_notes) ==
    [r EXCEPT !.status = CONFIRMED, !.admin_notes = admin_notes,
              !.updated_at = r.updated_at + 1]

\* Reservation.reject
RejectRaises(r) == r.status # PENDING
reject(r, admin_notes) ==
    [r EXCEPT !.status = REJECTED, !.admin_notes = admin_notes,
              !.updated_at = r.updated_at + 1]

\* variant: only a pending reservation can be cancelled
CancelRaises_unless_pending(r) == r.status # PENDING

\* variant: a rejected reservation can still be cancelled
CancelRaises_only_cancelled(r) == r.status = CANCELLED

\* variant: cancelling wipes the notes an earlier approval left
cancel_clears_notes(r) ==
    [r EXCEPT !.status = CANCELLED, !.admin_notes = "", !.updated_at = r.updated_at + 1]

\* Reservation.cancel
CancelRaises(r) == r.status \in {REJECTED, CANCELLED}
cancel(r) == [r EXCEPT !.status = CANCELLED, !.updated_at = r.updated_at + 1]

\* ------------------------------------------- in-memory reservation store
\* variant: closed intervals, touching slots overlap
time_slots_overlap_closed(slot1, slot2) ==
    slot1.start_time <= slot2.end_time /\ slot2.start_time <= slot1.end_time

\* InMemoryReservationRepository._time_slots_overlap
time_slots_overlap(slot1, slot2) ==
    slot1.start_time < slot2.end_time /\ slot2.start_time < slot1.end_time

\* variant: a missing id falls back to the first stored reservation
find_by_id_fallback(store, reservation_id) ==
    IF store[reservation_id] # None THEN store[reservation_id]
    ELSE IF \E i \in RIds : store[i] # None
         THEN store[CHOOSE i \in RIds : store[i] # None]
         ELSE None

\* InMemoryReservationRepository.find_by_id
find_by_id(store, reservation_id) == store[reservation_id]

\* variant: the space_id is not compared
find_by_space_and_time_any_space(store, space_id, time_slot) ==
    {i \in RIds : /\ store[i] # None
                  /\ store[i].time_slot.start_time < time_slot.end_time
                  /\ time_slot.start_time < store[i].time_slot.end_time}

\* InMemoryReservationRepository.find_by_space_and_time (as a set of ids)
find_by_space_and_time(store, space_id, time_slot) ==
    {i \in RIds : /\ store[i] # None
                  /\ ~(store[i].space_id # space_id)
                  /\ time_slots_overlap(store[i].time_slot, time_slot)}

\* InMemoryReservationRepository.save / update: dict assignment under the id
save(store, reservation) ==
    [store EXCEPT ![reservation.reservation_id] = reservation]

update(store, reservation) ==
    [store EXCEPT ![reservation.reservation_id] = reservation]

\* ------------------------------------------------ SQL reservation store
\* PostgresReservationRepository._to_db: the row of a reservation
to_db(reservation) ==
    [reservation_id |-> reservation.reservation_id,
     user_id        |-> reservation.user_id,
     space_id       |-> reservation.space_id,
     start_time     |-> reservation.time_slot.start_time,
     end_time       |-> reservation.time_slot.end_time,
     status         |-> reservation.status,
     created_at     |-> reservation.created_at,
     updated_at     |-> reservation.updated_at,
     admin_notes    |-> reservation.admin_notes]

\* PostgresReservationRepository._to_domain: a fresh Reservation from a row
to_domain(db_model) ==
    [reservation_id |-> db_model.reservation_id,
     user_id        |-> db_model.user_id,
     space_id       |-> db_model.space_id,
     time_slot      |-> TimeSlot(db_model.start_time, db_model.end_time),
     status         |-> db_model.status,
     admin_notes    |-> db_model.admin_notes,
     created_at     |-> db_model.created_at,
     updated_at     |-> db_model.updated_at]

\* PostgresReservationRepository.save: the table after the saves that made store
ReservationDB(store) == {to_db(store[i]) : i \in {j \in RIds : store[j] # None}}

\* variant: the SQL comparison lets touching rows through
Postgres_find_by_space_and_time_closed(table, space_id, time_slot) ==
    {to_domain(row) : row \in {x \in table : /\ x.space_id = space_id
                                             /\ x.start_time <= time_slot.end_time
                                             /\ x.end_time >= time_slot.start_time}}

\* PostgresReservationRepository.find_by_space_and_time: the WHERE clause
Postgres_find_by_space_and_time(table, space_id, time_slot) ==
    {to_domain(row) : row \in {x \in table : /\ x.space_id = space_id
                                             /\ x.start_time < time_slot.end_time
                                             /\ x.end_time > time_slot.start_time}}

\* uuid4() of the Reservation dataclass: an id no stored reservation has
FreeIds(store) == {i \in RIds : store[i] = None}
NewId(store) == CHOOSE i \in FreeIds(store) : \A j \in FreeIds(store) : i <= j

\* ------------------------------------------------- in-memory space store
space_find_by_id(store, space_id) == store[space_id]
\* variant: a space whose id is already stored is left as it is
space_save_keep_existing(store, space) ==
    IF store[space.space_id] # None THEN store
    ELSE [store EXCEPT ![space.space_id] = space]

space_save(store, space)   == [store EXCEPT ![space.space_id] = space]
space_update(store, space) == [store EXCEPT ![space.space_id] = space]
space_delete(store, space_id) == [store EXCEPT ![space_id] = None]

\* ------------------------------------------------------------ the calls
\* what a caller sees of a call: the operation, "ok" or the exception raised,
\* and the id of the reservation returned or asked for (0: none)
\* ------------------------------------------------------- exceptions
\* the base class of each exception class the calls raise
ExceptionBase ==
    [ValueError               |-> "Exception",
     DomainError              |-> "Exception",
     SpaceNotAvailableError   |-> "DomainError",
     ReservationNotFoundError |-> "DomainError",
     SpaceNotFoundError       |-> "DomainError",
     InvalidReservationError  |-> "DomainError",
     ReservationConflictError |-> "DomainError",
     AuthorizationError       |-> "DomainError"]

\* isinstance(exc, cls), as pytest.raises(cls) and an except clause decide it
RECURSIVE IsInstance(_, _)
IsInstance(exc, cls) ==
    \/ exc = cls
    \/ /\ exc \in DOMAIN ExceptionBase
       /\ IsInstance(ExceptionBase[exc], cls)

Call(op, outcome, rid) ==
    [op |-> op, outcome |-> outcome, reservation_id |-> rid]

\* variant: a confirmed reservation no longer counts as a conflict
active_conflicts_pending_only(store, space_id, time_slot) ==
    {i \in RIds : /\ store[i] # None
                  /\ store[i].space_id = space_id
                  /\ store[i].time_slot.start_time < time_slot.end_time
                  /\ time_slot.start_time < store[i].time_slot.end_time
                  /\ store[i].status = PENDING}

\* variant: every overlapping reservation counts, whatever its status
active_conflicts_any_status(store, space_id, time_slot) ==
    {i \in RIds : /\ store[i] # None
                  /\ store[i].space_id = space_id
                  /\ store[i].time_slot.start_time < time_slot.end_time
                  /\ time_slot.start_time < store[i].time_slot.end_time}

\* ReserveParkingService.execute, lines 68-73: the overlapping reservations
\* that are PENDING or CONFIRMED
active_conflicts(store, space_id, time_slot) ==
    {i \in find_by_space_and_time(store, space_id, time_slot) :
        store[i].status \in {PENDING, CONFIRMED}}

\* variant: the conflict is looked for before the availability flag
execute_checks_conflict_first(space_id, time_slot) ==
    LET space == spaces[space_id] IN
    IF space = None THEN "SpaceNotFoundError"
    ELSE IF \E i \in RIds : /\ reservations[i] # None
                            /\ reservations[i].space_id = space_id
                            /\ reservations[i].status \in {PENDING, CONFIRMED}
                            /\ reservations[i].time_slot.start_time < time_slot.end_time
                            /\ time_slot.start_time < reservations[i].time_slot.end_time
         THEN "ReservationConflictError"
    ELSE IF ~space.is_available THEN "SpaceNotAvailableError"
    ELSE "ok"

\* variant: the is_available flag of the space is not checked on admission
execute_checks_skips_flag(space_id, time_slot) ==
    LET space == spaces[space_id] IN
    IF space = None THEN "SpaceNotFoundError"
    ELSE IF active_conflicts(reservations, space_id, time_slot) # {}
         THEN "ReservationConflictError"
    ELSE "ok"

\* ReserveParkingService.execute, lines 57-83: the checks, in order
execute_checks(space_id, time_slot) ==
    LET space == space_find_by_id(spaces, space_id) IN
    IF space = None THEN "SpaceNotFoundError"
    ELSE IF ~space.is_available THEN "SpaceNotAvailableError"
    ELSE IF active_conflicts(reservations, space_id, time_slot) # {}
         THEN "ReservationConflictError"
    ELSE "ok"

\* variant: a successful reservation takes the space out of service
ReserveParkingService_execute_marks_space(user_id, space_id, start_time, end_time) ==
    /\ \E i \in RIds : reservations[i] = None
    /\ UNCHANGED <<pc, req>>
    /\ IF end_time <= start_time
       THEN /\ result' = [op |-> "reserve", outcome |-> "ValueError", reservation_id |-> 0]
            /\ UNCHANGED <<reservations, spaces>>
       ELSE LET slot    == [start_time |-> start_time, end_time |-> end_time]
                outcome == execute_checks(space_id, slot)
                new     == Reservation(NewId(reservations), user_id, space_id, slot)
            IN IF outcome # "ok"
               THEN /\ result' = [op |-> "reserve", outcome |-> outcome, reservation_id |-> 0]
                    /\ UNCHANGED <<reservations, spaces>>
               ELSE /\ reservations' = [reservations EXCEPT ![new.reservation_id] = new]
                    /\ spaces' = [spaces EXCEPT ![space_id].is_available = FALSE]
                    /\ result' = [op |-> "reserve", outcome |-> "ok",
                                  reservation_id |-> new.reservation_id]

\* reserve(user_id, space_id, TimeSlot(start_time, end_time)), run to completion
ReserveParkingService_execute(user_id, space_id, start_time, end_time) ==
    /\ FreeIds(reservations) # {}
    /\ UNCHANGED <<spaces, pc, req>>
    /\ IF ~TimeSlotValid(start_time, end_time)
       THEN /\ result' = Call("reserve", "ValueError", 0)
            /\ UNCHANGED reservations
       ELSE LET slot    == TimeSlot(start_time, end_time)
                outcome == execute_checks(space_id, slot)
                new     == Reservation(NewId(reservations), user_id, space_id, slot)
            IN IF outcome # "ok"
               THEN /\ result' = Call("reserve", outcome, 0)
                    /\ UNCHANGED reservations
               ELSE /\ reservations' = save(reservations, new)
                    /\ result' = Call("reserve", "ok", new.reservation_id)

\* variant: approval looks the space of the reservation up first
approve_reservation_checks_space(reservation_id, admin_notes) ==
    /\ UNCHANGED <<spaces, pc, req>>
    /\ LET reservation == reservations[reservation_id] IN
       IF reservation = None
       THEN /\ result' = Call("approve", "ReservationNotFoundError", reservation_id)
            /\ UNCHANGED reservations
       ELSE IF spaces[reservation.space_id] = None
       THEN /\ result' = Call("approve", "SpaceNotFoundError", reservation_id)
            /\ UNCHANGED reservations
       ELSE IF reservation.status # PENDING
       THEN /\ result' = Call("approve", "InvalidReservationError", reservation_id)
            /\ UNCHANGED reservations
       ELSE /\ reservations' = [reservations EXCEPT ![reservation_id] =
                                    approve(reservation, admin_notes)]
            /\ result' = Call("approve", "ok", reservation_id)

\* AdminApprovalService.approve_reservation
approve_reservation(reservation_id, admin_notes) ==
    /\ UNCHANGED <<spaces, pc, req>>
    /\ LET reservation == find_by_id(reservations, reservation_id) IN
       IF reservation = None
       THEN /\ result' = Call("approve", "ReservationNotFoundError", reservation_id)
            /\ UNCHANGED reservations
       ELSE IF ApproveRaises(reservation)
       THEN /\ result' = Call("approve", "InvalidReservationError", reservation_id)
            /\ UNCHANGED reservations
       ELSE /\ reservations' = update(reservations, approve(reservation, admin_notes))
            /\ result' = Call("approve", "ok", reservation_id)

\* AdminApprovalService.reject_reservation
reject_reservation(reservation_id, admin_notes) ==
    /\ UNCHANGED <<spaces, pc, req>>
    /\ LET reservation == find_by_id(reservations, reservation_id) IN
       IF reservation = None
       THEN /\ result' = Call("reject", "ReservationNotFoundError", reservation_id)
            /\ UNCHANGED reservations
       ELSE IF RejectRaises(reservation)
       THEN /\ result' = Call("reject", "InvalidReservationError", reservation_id)
            /\ UNCHANGED reservations
       ELSE /\ reservations' = update(reservations, reject(reservation, admin_notes))
            /\ result' = Call("reject", "ok", reservation_id)

\* variant: the caller's user_id is not compared with the owner's
cancel_reservation_any_user(reservation_id, user_id) ==
    /\ UNCHANGED <<spaces, pc, req>>
    /\ LET reservation == reservations[reservation_id] IN
       IF reservation = None
       THEN /\ result' = Call("cancel", "ReservationNotFoundError", reservation_id)
            /\ UNCHANGED reservations
       ELSE IF reservation.status \in {REJECTED, CANCELLED}
       THEN /\ result' = Call("cancel", "InvalidReservationError", reservation_id)
            /\ UNCHANGED reservations
       ELSE /\ reservations' = [reservations EXCEPT ![reservation_id] = cancel(reservation)]
            /\ result' = Call("cancel", "ok", reservation_id)

\* variant: the state of the reservation is looked at before its owner
cancel_reservation_state_first(reservation_id, user_id) ==
    /\ UNCHANGED <<spaces, pc, req>>
    /\ LET reservation == reservations[reservation_id] IN
       IF reservation = None
       THEN /\ result' = Call("cancel", "ReservationNotFoundError", reservation_id)
            /\ UNCHANGED reservations
       ELSE IF reservation.status \in {REJECTED, CANCELLED}
       THEN /\ result' = Call("cancel", "InvalidReservationError", reservation_id)
            /\ UNCHANGED reservations
       ELSE IF reservation.user_id # user_id
       THEN /\ result' = Call("cancel", "AuthorizationError", reservation_id)
            /\ UNCHANGED reservations
       ELSE /\ reservations' = [reservations EXCEPT ![reservation_id] = cancel(reservation)]
            /\ result' = Call("cancel", "ok", reservation_id)

\* ManageReservationsService.cancel_reservation
cancel_reservation(reservation_id, user_id) ==
    /\ UNCHANGED <<spaces, pc, req>>
    /\ LET reservation == find_by_id(reservations, reservation_id) IN
       IF reservation = None
       THEN /\ result' = Call("cancel", "ReservationNotFoundError", reservation_id)
            /\ UNCHANGED reservations
       ELSE IF reservation.user_id # user_id
       THEN /\ result' = Call("cancel", "AuthorizationError", reservation_id)
            /\ UNCHANGED reservations
       ELSE IF CancelRaises(reservation)
       THEN /\ result' = Call("cancel", "InvalidReservationError", reservation_id)
            /\ UNCHANGED reservations
       ELSE /\ reservations' = update(reservations, cancel(reservation))
            /\ result' = Call("cancel", "ok", reservation_id)

\* ManageParkingSpacesService.add_space
add_space(space_id, is_available) ==
    /\ spaces' = space_save(spaces, ParkingSpace(space_id, is_available))
    /\ result' = Call("add_space", "ok", 0)
    /\ UNCHANGED <<reservations, pc, req>>

\* variant: updating a space that is not stored creates it
update_space_upsert(space_id, is_available) ==
    /\ UNCHANGED <<reservations, pc, req>>
    /\ spaces' = [spaces EXCEPT ![space_id] = [space_id |-> space_id,
                                               is_available |-> is_available]]
    /\ result' = [op |-> "update_space", outcome |-> "ok", reservation_id |-> 0]

\* ManageParkingSpacesService.update_space
update_space(space_id, is_available) ==
    /\ UNCHANGED <<reservations, pc, req>>
    /\ IF space_find_by_id(spaces, space_id) = None
       THEN /\ result' = Call("update_space", "SpaceNotFoundError", 0)
            /\ UNCHANGED spaces
       ELSE /\ spaces' = space_update(spaces, ParkingSpace(space_id, is_available))
            /\ result' = Call("update_space", "ok", 0)

\* variant: removing a space cancels the active reservations on it
remove_space_cascade(space_id) ==
    /\ UNCHANGED <<pc, req>>
    /\ IF spaces[space_id] = None
       THEN /\ result' = Call("remove_space", "SpaceNotFoundError", 0)
            /\ UNCHANGED <<spaces, reservations>>
       ELSE /\ spaces' = [spaces EXCEPT ![space_id] = None]
            /\ reservations' =
                  [i \in RIds |->
                     IF /\ reservations[i] # None
                        /\ reservations[i].space_id = space_id
                        /\ reservations[i].status \in {PENDING, CONFIRMED}
                     THEN cancel(reservations[i])
                     ELSE reservations[i]]
            /\ result' = Call("remove_space", "ok", 0)

\* ManageParkingSpacesService.remove_space
remove_space(space_id) ==
    /\ UNCHANGED <<reservations, pc, req>>
    /\ IF space_find_by_id(spaces, space_id) = None
       THEN /\ result' = Call("remove_space", "SpaceNotFoundError", 0)
            /\ UNCHANGED spaces
       ELSE /\ spaces' = space_delete(spaces, space_id)
            /\ result' = Call("remove_space", "ok", 0)

\* ------------------------------------------------------------ queries
\* variant: every stored reservation is returned, whatever its status
find_by_status_any(store, status) ==
    {store[i] : i \in {j \in RIds : store[j] # None}}

\* InMemoryReservationRepository.find_by_status
find_by_status(store, status) ==
    {store[i] : i \in {j \in RIds : store[j] # None /\ store[j].status = status}}

\* InMemoryParkingSpaceRepository.find_available
space_find_available(store) ==
    {store[s] : s \in {x \in SpaceIds : store[x] # None /\ store[x].is_available}}

\* AdminApprovalService.get_pending_reservations: the returned reservations
get_pending_reservations == find_by_status(reservations, PENDING)

\* variant: the is_available flag of the space is not looked at
is_space_available_ignores_flag(space_id, time_slot) ==
    /\ spaces[space_id] # None
    /\ ~ \E i \in RIds : /\ reservations[i] # None
                         /\ reservations[i].space_id = space_id
                         /\ reservations[i].status \in {PENDING, CONFIRMED}
                         /\ reservations[i].time_slot.start_time < time_slot.end_time
                         /\ time_slot.start_time < reservations[i].time_slot.end_time

\* CheckAvailabilityService.is_space_available: the returned boolean
is_space_available(space_id, time_slot) ==
    LET space == space_find_by_id(spaces, space_id) IN
    IF space = None \/ ~space.is_available
    THEN FALSE
    ELSE LET conflicting == find_by_space_and_time(reservations, space_id, time_slot)
             conflicts_active == {i \in conflicting :
                                    reservations[i].status \in {PENDING, CONFIRMED}}
         IN Cardinality(conflicts_active) = 0

\* variant: the available spaces are returned without looking at reservations
CheckAvailabilityService_execute_unfiltered(time_slot) ==
    {spaces[s] : s \in {x \in SpaceIds : spaces[x] # None /\ spaces[x].is_available}}

\* CheckAvailabilityService.execute: the returned spaces
CheckAvailabilityService_execute(time_slot) ==
    LET all_spaces == space_find_available(spaces) IN
    {space \in all_spaces : is_space_available(space.space_id, time_slot)}

\* the record of a query: the call record and the value returned
Returned(op, value) ==
    [op |-> op, outcome |-> "ok", reservation_id |-> 0, value |-> value]

\* a call of is_space_available(space_id, TimeSlot(start_time, end_time))
call_is_space_available(space_id, start_time, end_time) ==
    /\ TimeSlotValid(start_time, end_time)
    /\ result' = Returned("is_space_available",
                          is_space_available(space_id, TimeSlot(start_time, end_time)))
    /\ UNCHANGED <<reservations, spaces, pc, req>>

\* a call of check_availability(TimeSlot(start_time, end_time))
call_check_availability(start_time, end_time) ==
    /\ TimeSlotValid(start_time, end_time)
    /\ result' = Returned("check_availability",
                          CheckAvailabilityService_execute(TimeSlot(start_time, end_time)))
    /\ UNCHANGED <<reservations, spaces, pc, req>>

\* a call of get_pending_reservations()
call_get_pending_reservations ==
    /\ result' = Returned("get_pending_reservations", get_pending_reservations)
    /\ UNCHANGED <<reservations, spaces, pc, req>>

\* ------------------------------------------- reserve, step by step
\* Requests in flight between the conflict check and the save
InFlight == {p \in Procs : pc[p] = "persist"}

\* ReserveParkingService.execute, lines 57-83, for request p: the three checks
execute_check(p, user_id, space_id, start_time, end_time) ==
    /\ pc[p] = "idle"
    /\ TimeSlotValid(start_time, end_time)
    /\ Cardinality(FreeIds(reservations)) > Cardinality(InFlight)
    /\ UNCHANGED <<reservations, spaces>>
    /\ LET slot    == TimeSlot(start_time, end_time)
           outcome == execute_checks(space_id, slot)
       IN IF outcome # "ok"
          THEN /\ result' = Call("reserve", outcome, 0)
               /\ UNCHANGED <<pc, req>>
          ELSE /\ pc' = [pc EXCEPT ![p] = "persist"]
               /\ req' = [req EXCEPT ![p] = [user_id |-> user_id,
                                             space_id |-> space_id,
                                             time_slot |-> slot]]
               /\ UNCHANGED result

\* variant: the save happens only if the slot is still free
execute_save_rechecks(p) ==
    /\ pc[p] = "persist"
    /\ IF \E i \in RIds : /\ reservations[i] # None
                          /\ reservations[i].space_id = req[p].space_id
                          /\ reservations[i].status \in {PENDING, CONFIRMED}
                          /\ reservations[i].time_slot.start_time < req[p].time_slot.end_time
                          /\ req[p].time_slot.start_time < reservations[i].time_slot.end_time
       THEN /\ result' = [op |-> "reserve", outcome |-> "ReservationConflictError",
                          reservation_id |-> 0]
            /\ UNCHANGED reservations
       ELSE LET id == CHOOSE i \in RIds : reservations[i] = None IN
            /\ reservations' = [reservations EXCEPT ![id] =
                  [reservation_id |-> id, user_id |-> req[p].user_id,
                   space_id |-> req[p].space_id, time_slot |-> req[p].time_slot,
                   status |-> PENDING, admin_notes |-> "",
                   created_at |-> 0, updated_at |-> 0]]
            /\ result' = [op |-> "reserve", outcome |-> "ok", reservation_id |-> id]
    /\ pc' = [pc EXCEPT ![p] = "idle"]
    /\ req' = [req EXCEPT ![p] = None]
    /\ UNCHANGED spaces

\* ReserveParkingService.execute, lines 85-97, for request p: construct and save
execute_save(p) ==
    /\ pc[p] = "persist"
    /\ LET new == Reservation(NewId(reservations), req[p].user_id,
                              req[p].space_id, req[p].time_slot)
       IN /\ reservations' = save(reservations, new)
          /\ result' = Call("reserve", "ok", new.reservation_id)
    /\ pc' = [pc EXCEPT ![p] = "idle"]
    /\ req' = [req EXCEPT ![p] = None]
    /\ UNCHANGED spaces

\* ------------------------------- lifecycle calls, step by step, on SQL
\* PostgresReservationRepository.find_by_id: a fresh object made from the row
Postgres_find_by_id(store, reservation_id) ==
    IF store[reservation_id] = None THEN None
    ELSE to_domain(to_db(store[reservation_id]))

\* PostgresReservationRepository.update: every column is overwritten with the
\* fields of the object passed in; a missing row is inserted
Postgres_update(store, reservation) ==
    IF store[reservation.reservation_id] = None
    THEN save(store, to_domain(to_db(reservation)))
    ELSE [store EXCEPT ![reservation.reservation_id] =
            [@ EXCEPT !.user_id     = reservation.user_id,
                      !.space_id    = reservation.space_id,
                      !.time_slot   = TimeSlot(reservation.time_slot.start_time,
                                               reservation.time_slot.end_time),
                      !.status      = reservation.status,
                      !.created_at  = reservation.created_at,
                      !.updated_at  = reservation.updated_at,
                      !.admin_notes = reservation.admin_notes]]

\* the request p holds between the steps of a lifecycle call
Held(op, reservation, admin_notes) ==
    [op |-> op, reservation |-> reservation, admin_notes |-> admin_notes]

\* approve_reservation, line 49-52, for request p: fetch, or not found
approve_fetch(p, reservation_id, admin_notes) ==
    /\ pc[p] = "idle"
    /\ UNCHANGED <<reservations, spaces>>
    /\ LET reservation == Postgres_find_by_id(reservations, reservation_id) IN
       IF reservation = None
       THEN /\ result' = Call("approve", "ReservationNotFoundError", reservation_id)
            /\ UNCHANGED <<pc, req>>
       ELSE /\ pc' = [pc EXCEPT ![p] = "fetched"]
            /\ req' = [req EXCEPT ![p] = Held("approve", reservation, admin_notes)]
            /\ UNCHANGED result

\* reject_reservation, line 75-78, for request p: fetch, or not found
reject_fetch(p, reservation_id, admin_notes) ==
    /\ pc[p] = "idle"
    /\ UNCHANGED <<reservations, spaces>>
    /\ LET reservation == Postgres_find_by_id(reservations, reservation_id) IN
       IF reservation = None
       THEN /\ result' = Call("reject", "ReservationNotFoundError", reservation_id)
            /\ UNCHANGED <<pc, req>>
       ELSE /\ pc' = [pc EXCEPT ![p] = "fetched"]
            /\ req' = [req EXCEPT ![p] = Held("reject", reservation, admin_notes)]
            /\ UNCHANGED result

\* cancel_reservation, line 62-76, for request p: fetch, not found, not the owner
cancel_fetch(p, reservation_id, user_id) ==
    /\ pc[p] = "idle"
    /\ UNCHANGED <<reservations, spaces>>
    /\ LET reservation == Postgres_find_by_id(reservations, reservation_id) IN
       IF reservation = None
       THEN /\ result' = Call("cancel", "ReservationNotFoundError", reservation_id)
            /\ UNCHANGED <<pc, req>>
       ELSE IF reservation.user_id # user_id
       THEN /\ result' = Call("cancel", "AuthorizationError", reservation_id)
            /\ UNCHANGED <<pc, req>>
       ELSE /\ pc' = [pc EXCEPT ![p] = "fetched"]
            /\ req' = [req EXCEPT ![p] = Held("cancel", reservation, "")]
            /\ UNCHANGED result

\* reservation.approve() / reject() / cancel() on the object request p holds
mutate(p) ==
    /\ pc[p] = "fetched"
    /\ UNCHANGED <<reservations, spaces>>
    /\ LET held   == req[p]
           raises == IF held.op = "approve" THEN ApproveRaises(held.reservation)
                     ELSE IF held.op = "reject" THEN RejectRaises(held.reservation)
                     ELSE CancelRaises(held.reservation)
           after  == IF held.op = "approve"
                     THEN approve(held.reservation, held.admin_notes)
                     ELSE IF held.op = "reject"
                     THEN reject(held.reservation, held.admin_notes)
                     ELSE cancel(held.reservation)
       IN IF raises
          THEN /\ result' = Call(held.op, "InvalidReservationError",
                                 held.reservation.reservation_id)
               /\ pc' = [pc EXCEPT ![p] = "idle"]
               /\ req' = [req EXCEPT ![p] = None]
          ELSE /\ pc' = [pc EXCEPT ![p] = "mutated"]
               /\ req' = [req EXCEPT ![p] = Held(held.op, after, held.admin_notes)]
               /\ UNCHANGED result

\* self._reservation_repo.update(reservation) of request p
write_back(p) ==
    /\ pc[p] = "mutated"
    /\ reservations' = Postgres_update(reservations, req[p].reservation)
    /\ result' = Call(req[p].op, "ok", req[p].reservation.reservation_id)
    /\ pc' = [pc EXCEPT ![p] = "idle"]
    /\ req' = [req EXCEPT ![p] = None]
    /\ UNCHANGED spaces

\* ------------------------------------------------------- specification
\* The repositories as the composition root builds them: no reservation, and
\* the space store seeded with spaces that are all available.
seed_parking_spaces == [s \in SpaceIds |-> ParkingSpace(s, TRUE)]

Init ==
    /\ reservations = [i \in RIds |-> None]
    /\ spaces = seed_parking_spaces
    /\ result = Call("init", "ok", 0)
    /\ pc = [p \in Procs |-> "idle"]
    /\ req = [p \in Procs |-> None]

\* Every call runs to completion before the next one starts.
Next ==
    \/ \E u \in Users, sp \in SpaceIds, s \in Times, e \in Times : ReserveParkingService_execute(u, sp, s, e)
    \/ \E i \in RIds, n \in Notes : approve_reservation(i, n)
    \/ \E i \in RIds, n \in Notes : reject_reservation(i, n)
    \/ \E i \in RIds, u \in Users : cancel_reservation(i, u)
    \/ \E sp \in ManagedSpaceIds, a \in BOOLEAN : add_space(sp, a)
    \/ \E sp \in ManagedSpaceIds, a \in BOOLEAN : update_space(sp, a)
    \/ \E sp \in ManagedSpaceIds : remove_space(sp)

Spec == Init /\ [][Next]_vars

\* Reserve calls run whole, one at a time; the steps of approve, reject and
\* cancel calls of concurrent requests interleave with them and each other.
NextLifecycle ==
    \/ \E u \in Owners, sp \in ManagedSpaceIds, s \in Times, e \in Times :
          ReserveParkingService_execute(u, sp, s, e)
    \/ \E p \in Procs, i \in RIds, n \in Notes : approve_fetch(p, i, n)
    \/ \E p \in Procs, i \in RIds, n \in Notes : reject_fetch(p, i, n)
    \/ \E p \in Procs, i \in RIds, u \in Users : cancel_fetch(p, i, u)
    \/ \E p \in Procs : mutate(p)
    \/ \E p \in Procs : write_back(p)

SpecLifecycle == Init /\ [][NextLifecycle]_vars

\* The same calls, and the queries between them.
NextQuery ==
    \/ Next
    \/ \E sp \in SpaceIds, s \in Times, e \in Times : call_is_space_available(sp, s, e)
    \/ \E s \in Times, e \in Times : call_check_availability(s, e)
    \/ call_get_pending_reservations

SpecQuery == Init /\ [][NextQuery]_vars

\* ReserveParkingService_execute calls of concurrent requests interleave between check and save.
NextRace ==
    \/ \E p \in Procs, u \in Users, sp \in SpaceIds, s \in Times, e \in Times :
          execute_check(p, u, sp, s, e)
    \/ \E p \in Procs : execute_save(p)
    \/ \E i \in RIds, n \in Notes : approve_reservation(i, n)
    \/ \E i \in RIds, n \in Notes : reject_reservation(i, n)
    \/ \E i \in RIds, u \in Users : cancel_reservation(i, u)

SpecRace == Init /\ [][NextRace]_vars

\* ------------------------------------------------------------ claims
Stored(i) == reservations[i] # None
Active(r) == r.status \in {PENDING, CONFIRMED}
Inert(r)  == r.status \in {REJECTED, CANCELLED}

\* [a,b) and [c,d) have an instant in common: some unit cell [t,t+1) lies in both
SharesInstant(a, b, c, d) ==
    \E t \in 0..(MaxTime - 1) : a <= t /\ t + 1 <= b /\ c <= t /\ t + 1 <= d

\* an active reservation on space_id that has an instant in common with [s,e)
Occupied(space_id, s, e) ==
    \E i \in RIds : /\ Stored(i)
                    /\ reservations[i].space_id = space_id
                    /\ Active(reservations[i])
                    /\ SharesInstant(reservations[i].time_slot.start_time,
                                     reservations[i].time_slot.end_time, s, e)

Usable(space_id) == spaces[space_id] # None /\ spaces[space_id].is_available

\* C1: with calls run one at a time, no two distinct active (PENDING or
\* CONFIRMED) reservations on the same space have overlapping time slots
\* (start1 < end2 and start2 < end1).
C1_NoOverlap ==
    \A i, j \in RIds :
        (/\ i # j /\ Stored(i) /\ Stored(j)
         /\ reservations[i].space_id = reservations[j].space_id
         /\ Active(reservations[i]) /\ Active(reservations[j]))
        => ~(/\ reservations[i].time_slot.start_time < reservations[j].time_slot.end_time
             /\ reservations[j].time_slot.start_time < reservations[i].time_slot.end_time)

\* two active reservations share a space, the later one just admitted while the
\* earlier one is already confirmed
C1_Witness ==
    /\ result.op = "reserve" /\ result.outcome = "ok"
    /\ \E i, j \in RIds :
          /\ i # j /\ Stored(i) /\ Stored(j) /\ result.reservation_id = j
          /\ reservations[i].space_id = reservations[j].space_id
          /\ reservations[i].status = CONFIRMED /\ reservations[j].status = PENDING

\* C2: when the conflict check and the save of reserve are separate steps, a
\* request that passed the check is saved as a new PENDING reservation whatever
\* has been saved since, so two requests for one space with overlapping slots
\* that both passed the check both get stored: a double booking is reachable.
C2_PersistAfterCheck ==
    [][\A p \in Procs :
        (pc[p] = "persist" /\ pc'[p] = "idle")
        => \E i \in RIds :
              /\ ~Stored(i)
              /\ reservations'[i] =
                    [reservation_id |-> i,
                     user_id |-> req[p].user_id, space_id |-> req[p].space_id,
                     time_slot |-> req[p].time_slot,
                     status |-> PENDING, admin_notes |-> "",
                   created_at |-> 0, updated_at |-> 0]
              /\ \A j \in RIds : j # i => reservations'[j] = reservations[j]
      ]_vars

\* two active reservations on one space overlap, the second just saved
C2_Witness ==
    /\ result.op = "reserve" /\ result.outcome = "ok"
    /\ \E i, j \in RIds :
          /\ i # j /\ Stored(i) /\ Stored(j) /\ result.reservation_id = j
          /\ reservations[i].space_id = reservations[j].space_id
          /\ Active(reservations[i]) /\ Active(reservations[j])
          /\ reservations[i].time_slot.start_time < reservations[j].time_slot.end_time
          /\ reservations[j].time_slot.start_time < reservations[i].time_slot.end_time

\* C3: reserve on a space that exists, is available and has no active
\* overlapping reservation returns a new PENDING reservation carrying the given
\* user_id, space_id and time_slot and empty admin_notes; it is then in the
\* store under its id, and every reservation stored before is as it was.
C3_ReserveSuccess ==
    [][\A u \in Users, sp \in SpaceIds, s \in Times, e \in Times :
        (/\ s < e /\ Usable(sp) /\ ~Occupied(sp, s, e)
         /\ ReserveParkingService_execute(u, sp, s, e))
        => /\ result'.op = "reserve" /\ result'.outcome = "ok"
           /\ result'.reservation_id \in RIds
           /\ ~Stored(result'.reservation_id)
           /\ reservations'[result'.reservation_id] =
                 [reservation_id |-> result'.reservation_id,
                  user_id |-> u, space_id |-> sp,
                  time_slot |-> [start_time |-> s, end_time |-> e],
                  status |-> PENDING, admin_notes |-> "",
                   created_at |-> 0, updated_at |-> 0]
           /\ \A j \in RIds : Stored(j) => reservations'[j] = reservations[j]
      ]_vars

\* a reservation was just admitted next to one stored earlier
C3_Witness ==
    /\ result.op = "reserve" /\ result.outcome = "ok"
    /\ Stored(result.reservation_id)
    /\ reservations[result.reservation_id].status = PENDING
    /\ \E j \in RIds : j # result.reservation_id /\ Stored(j)

\* C4: reserve reports the most fundamental failure first: SpaceNotFoundError
\* whenever the space is not in the space store, SpaceNotAvailableError whenever
\* it exists with is_available = false (even if an active reservation overlaps),
\* ReservationConflictError only when it exists and is available; in each of
\* these failures the reservation store is unchanged.
C4_ErrorPriority ==
    [][\A u \in Users, sp \in SpaceIds, s \in Times, e \in Times :
        (s < e /\ ReserveParkingService_execute(u, sp, s, e))
        => /\ result'.op = "reserve"
           /\ spaces[sp] = None => result'.outcome = "SpaceNotFoundError"
           /\ (spaces[sp] # None /\ ~spaces[sp].is_available)
                 => result'.outcome = "SpaceNotAvailableError"
           /\ result'.outcome = "ReservationConflictError" => Usable(sp)
           /\ result'.outcome \in {"SpaceNotFoundError", "SpaceNotAvailableError",
                                   "ReservationConflictError"}
                 => reservations' = reservations
      ]_vars

\* reserve failed with SpaceNotAvailableError although every unavailable space
\* carries an active reservation covering the whole timeline
C4_Witness ==
    /\ result.op = "reserve" /\ result.outcome = "SpaceNotAvailableError"
    /\ \A sp \in SpaceIds :
          (spaces[sp] # None /\ ~spaces[sp].is_available)
          => \A t \in 0..(MaxTime - 1) : Occupied(sp, t, t + 1)

\* C5: for a space that exists and is available, reserve fails with
\* ReservationConflictError if and only if the store holds a reservation with
\* the same space_id, an active status and a slot overlapping the requested
\* one; reservations on other spaces never conflict; on conflict nothing is added.
C5_ConflictIff ==
    [][\A u \in Users, sp \in SpaceIds, s \in Times, e \in Times :
        (s < e /\ Usable(sp) /\ ReserveParkingService_execute(u, sp, s, e))
        => /\ result'.op = "reserve"
           /\ result'.outcome = "ReservationConflictError"
                 <=> \E i \in RIds :
                        /\ Stored(i)
                        /\ reservations[i].space_id = sp
                        /\ reservations[i].status \in {PENDING, CONFIRMED}
                        /\ reservations[i].time_slot.start_time < e
                        /\ s < reservations[i].time_slot.end_time
           /\ result'.outcome = "ReservationConflictError"
                 => reservations' = reservations
      ]_vars

\* a reserve was just refused as a conflict on a space holding a confirmed
\* reservation
C5_Witness ==
    /\ result.op = "reserve" /\ result.outcome = "ReservationConflictError"
    /\ \E i \in RIds : /\ Stored(i) /\ reservations[i].status = CONFIRMED
                       /\ Usable(reservations[i].space_id)

\* C6: overlap is half-open and symmetric. Against the active reservations of
\* an available space, the repository's overlap test says "overlap" exactly
\* when the two slots have an instant in common, in either argument order; a
\* request that only touches them ([b,c) after [a,b), or [z,a) before it) is
\* admitted, one sharing an interior instant is refused as a conflict.
C6_HalfOpenOverlap ==
    [][\A u \in Users, sp \in SpaceIds, s \in Times, e \in Times :
        (s < e /\ Usable(sp) /\ ReserveParkingService_execute(u, sp, s, e))
        => /\ \A i \in RIds :
                 Stored(i) =>
                    LET ts == reservations[i].time_slot
                        q  == [start_time |-> s, end_time |-> e]
                    IN /\ time_slots_overlap(ts, q)
                            <=> SharesInstant(ts.start_time, ts.end_time, s, e)
                       /\ time_slots_overlap(q, ts) <=> time_slots_overlap(ts, q)
           /\ Occupied(sp, s, e) => result'.outcome = "ReservationConflictError"
           /\ ~Occupied(sp, s, e) => result'.outcome = "ok"
      ]_vars

\* a request starting exactly where an active reservation on the same space
\* ends (or ending exactly where it starts) was just admitted
C6_Witness ==
    /\ result.op = "reserve" /\ result.outcome = "ok"
    /\ \E i, j \in RIds :
          /\ i # j /\ Stored(i) /\ Stored(j) /\ result.reservation_id = j
          /\ reservations[i].space_id = reservations[j].space_id
          /\ Active(reservations[i])
          /\ \/ reservations[i].time_slot.end_time = reservations[j].time_slot.start_time
             \/ reservations[j].time_slot.end_time = reservations[i].time_slot.start_time

\* C7: REJECTED and CANCELLED reservations never block admission: when every
\* reservation overlapping the slot on an available space is rejected or
\* cancelled, a reserve by any user for that space and slot succeeds with
\* status PENDING.
C7_InertNeverBlocks ==
    [][\A u \in Users, sp \in SpaceIds, s \in Times, e \in Times :
        (/\ s < e /\ Usable(sp)
         /\ \A i \in RIds :
               (/\ Stored(i) /\ reservations[i].space_id = sp
                /\ SharesInstant(reservations[i].time_slot.start_time,
                                 reservations[i].time_slot.end_time, s, e))
               => Inert(reservations[i])
         /\ ReserveParkingService_execute(u, sp, s, e))
        => /\ result'.op = "reserve" /\ result'.outcome = "ok"
           /\ reservations'[result'.reservation_id].status = PENDING
           /\ reservations'[result'.reservation_id].user_id = u
      ]_vars

\* another user was admitted for the slot of a reservation that was confirmed
\* and then cancelled
C7_Witness ==
    /\ result.op = "reserve" /\ result.outcome = "ok"
    /\ \E i, j \in RIds :
          /\ i # j /\ Stored(i) /\ Stored(j) /\ result.reservation_id = j
          /\ reservations[i].space_id = reservations[j].space_id
          /\ reservations[i].time_slot = reservations[j].time_slot
          /\ reservations[i].user_id # reservations[j].user_id
          /\ reservations[i].status = CANCELLED /\ reservations[i].admin_notes = "ok"
          /\ reservations[j].status = PENDING

\* C8: approve_reservation(id, notes) / reject_reservation(id, notes) on a
\* stored reservation succeeds exactly when its status is PENDING; then the
\* stored status is CONFIRMED / REJECTED and admin_notes equals notes. From any
\* other status it fails with InvalidReservationError and the stored
\* reservation is unchanged.
C8_ApproveReject ==
    [][\A i \in RIds, n \in Notes :
        /\ (Stored(i) /\ approve_reservation(i, n))
           => IF reservations[i].status = PENDING
              THEN /\ result' = [op |-> "approve", outcome |-> "ok", reservation_id |-> i]
                   /\ reservations'[i].status = CONFIRMED
                   /\ reservations'[i].admin_notes = n
              ELSE /\ result' = [op |-> "approve", outcome |-> "InvalidReservationError",
                                 reservation_id |-> i]
                   /\ reservations' = reservations
        /\ (Stored(i) /\ reject_reservation(i, n))
           => IF reservations[i].status = PENDING
              THEN /\ result' = [op |-> "reject", outcome |-> "ok", reservation_id |-> i]
                   /\ reservations'[i].status = REJECTED
                   /\ reservations'[i].admin_notes = n
              ELSE /\ result' = [op |-> "reject", outcome |-> "InvalidReservationError",
                                 reservation_id |-> i]
                   /\ reservations' = reservations
      ]_vars

\* a reject just succeeded while another reservation stands approved with notes
C8_Witness ==
    /\ result.op = "reject" /\ result.outcome = "ok"
    /\ reservations[result.reservation_id].status = REJECTED
    /\ reservations[result.reservation_id].admin_notes = "ok"
    /\ \E j \in RIds : /\ Stored(j) /\ reservations[j].status = CONFIRMED
                       /\ reservations[j].admin_notes = "ok"

\* C9: cancel_reservation by the owner succeeds exactly when the status is
\* PENDING or CONFIRMED, and then the stored status is CANCELLED; when the
\* status is REJECTED or CANCELLED it fails with InvalidReservationError and
\* the stored reservation is unchanged.
C9_OwnerCancel ==
    [][\A i \in RIds, u \in Users :
        (Stored(i) /\ reservations[i].user_id = u /\ cancel_reservation(i, u))
        => IF reservations[i].status \in {PENDING, CONFIRMED}
           THEN /\ result' = [op |-> "cancel", outcome |-> "ok", reservation_id |-> i]
                /\ reservations'[i].status = CANCELLED
           ELSE /\ result' = [op |-> "cancel", outcome |-> "InvalidReservationError",
                              reservation_id |-> i]
                /\ reservations' = reservations
      ]_vars

\* the owner just cancelled a reservation that had been confirmed
C9_Witness ==
    /\ result.op = "cancel" /\ result.outcome = "ok"
    /\ reservations[result.reservation_id].status = CANCELLED
    /\ reservations[result.reservation_id].admin_notes = "ok"

\* C10: state-machine closure. The only status changes are PENDING->CONFIRMED,
\* PENDING->REJECTED, PENDING->CANCELLED and CONFIRMED->CANCELLED; a REJECTED or
\* CANCELLED reservation never changes again and every approve, reject and
\* cancel on it fails; on a CONFIRMED one approve and reject fail and the
\* owner's cancel succeeds.
Transitions ==
    {<<PENDING, CONFIRMED>>, <<PENDING, REJECTED>>,
     <<PENDING, CANCELLED>>, <<CONFIRMED, CANCELLED>>}

Lifecycle == {"approve", "reject", "cancel"}

C10_Closure ==
    [][\A i \in RIds :
        Stored(i) =>
           /\ reservations'[i] # None
           /\ reservations'[i].status # reservations[i].status
                 => <<reservations[i].status, reservations'[i].status>> \in Transitions
           /\ Inert(reservations[i])
                 => /\ reservations'[i] = reservations[i]
                    /\ (result'.op \in Lifecycle /\ result'.reservation_id = i)
                          => result'.outcome \in {"InvalidReservationError",
                                                  "AuthorizationError"}
           /\ (/\ reservations[i].status = CONFIRMED
               /\ result'.op \in {"approve", "reject"} /\ result'.reservation_id = i)
                 => /\ result'.outcome = "InvalidReservationError"
                    /\ reservations'[i] = reservations[i]
           /\ (/\ reservations[i].status = CONFIRMED
               /\ cancel_reservation(i, reservations[i].user_id))
                 => result'.outcome = "ok" /\ reservations'[i].status = CANCELLED
      ]_vars

\* an approve, reject or cancel was just refused on a reservation that is
\* rejected or cancelled
C10_Witness ==
    /\ result.op \in Lifecycle /\ result.outcome = "InvalidReservationError"
    /\ Stored(result.reservation_id)
    /\ Inert(reservations[result.reservation_id])

\* C11: no lifecycle operation is idempotent: in every state reached by a
\* successful approve, reject or cancel of a reservation, the same operation on
\* it (cancel by the same owner) can only end with InvalidReservationError and
\* the reservation store as the first application left it.
C11_NotIdempotent ==
    \A i \in RIds :
        (result.outcome = "ok" /\ result.reservation_id = i /\ Stored(i))
        => /\ result.op = "approve" =>
                 \A n \in Notes :
                    ~ ENABLED (/\ approve_reservation(i, n)
                               /\ ~ (/\ result' = [op |-> "approve",
                                                   outcome |-> "InvalidReservationError",
                                                   reservation_id |-> i]
                                     /\ reservations' = reservations))
           /\ result.op = "reject" =>
                 \A n \in Notes :
                    ~ ENABLED (/\ reject_reservation(i, n)
                               /\ ~ (/\ result' = [op |-> "reject",
                                                   outcome |-> "InvalidReservationError",
                                                   reservation_id |-> i]
                                     /\ reservations' = reservations))
           /\ result.op = "cancel" =>
                 ~ ENABLED (/\ cancel_reservation(i, reservations[i].user_id)
                            /\ ~ (/\ result' = [op |-> "cancel",
                                                outcome |-> "InvalidReservationError",
                                                reservation_id |-> i]
                                  /\ reservations' = reservations))

\* a second approve was just refused on a reservation that stands confirmed
C11_Witness ==
    /\ result.op = "approve" /\ result.outcome = "InvalidReservationError"
    /\ Stored(result.reservation_id)
    /\ reservations[result.reservation_id].status = CONFIRMED

\* C12: cancel_reservation(reservation_id, user_id) changes a reservation only
\* when user_id is the reservation's user_id: a call by any other user fails
\* with AuthorizationError and leaves the store unchanged, so every step that
\* makes a reservation CANCELLED is a successful cancel by its owner.
C12_OwnerOnly ==
    [][\A i \in RIds :
        Stored(i) =>
           /\ \A u \in Users :
                 (reservations[i].user_id # u /\ cancel_reservation(i, u))
                 => /\ result' = [op |-> "cancel", outcome |-> "AuthorizationError",
                                  reservation_id |-> i]
                    /\ reservations' = reservations
           /\ (reservations[i].status # CANCELLED /\ reservations'[i].status = CANCELLED)
                 => /\ result' = [op |-> "cancel", outcome |-> "ok",
                                  reservation_id |-> i]
                    /\ cancel_reservation(i, reservations[i].user_id)
                    /\ \A u \in Users :
                          cancel_reservation(i, u) => u = reservations[i].user_id
      ]_vars

\* a cancel by someone else was just refused on an active reservation
C12_Witness ==
    /\ result.op = "cancel" /\ result.outcome = "AuthorizationError"
    /\ Stored(result.reservation_id)
    /\ Active(reservations[result.reservation_id])

\* C13: approve_reservation, reject_reservation and cancel_reservation with a
\* reservation id that is not in the store fail with ReservationNotFoundError
\* and leave the reservation store unchanged.
C13_NotFound ==
    [][\A i \in RIds :
        ~Stored(i) =>
           /\ \A n \in Notes :
                 approve_reservation(i, n)
                 => /\ result' = [op |-> "approve",
                                  outcome |-> "ReservationNotFoundError",
                                  reservation_id |-> i]
                    /\ reservations' = reservations
           /\ \A n \in Notes :
                 reject_reservation(i, n)
                 => /\ result' = [op |-> "reject",
                                  outcome |-> "ReservationNotFoundError",
                                  reservation_id |-> i]
                    /\ reservations' = reservations
           /\ \A u \in Users :
                 cancel_reservation(i, u)
                 => /\ result' = [op |-> "cancel",
                                  outcome |-> "ReservationNotFoundError",
                                  reservation_id |-> i]
                    /\ reservations' = reservations
      ]_vars

\* a lifecycle call on an unknown id was just refused while another
\* reservation is stored and pending
C13_Witness ==
    /\ result.op \in Lifecycle /\ result.outcome = "ReservationNotFoundError"
    /\ ~Stored(result.reservation_id)
    /\ \E j \in RIds : Stored(j) /\ reservations[j].status = PENDING

\* C17: a TimeSlot whose end is not after its start cannot be constructed:
\* a reserve call with end <= start fails with ValueError before any store is
\* touched, and every stored reservation has end > start.
C17_SlotValid ==
    [][/\ \A i \in RIds :
            reservations'[i] # None
            => reservations'[i].time_slot.end_time > reservations'[i].time_slot.start_time
       /\ \A s \in Times, e \in Times :
            e <= s =>
               \A u \in Users, sp \in SpaceIds :
                  ReserveParkingService_execute(u, sp, s, e)
                  => /\ result' = [op |-> "reserve", outcome |-> "ValueError",
                                   reservation_id |-> 0]
                     /\ reservations' = reservations
                     /\ spaces' = spaces
      ]_vars

\* a reserve call was just refused for its slot while a reservation is stored
C17_Witness ==
    /\ result.op = "reserve" /\ result.outcome = "ValueError"
    /\ \E i \in RIds : Stored(i)

\* C18: update_space and remove_space on a space id that is not stored fail
\* with SpaceNotFoundError and leave the space store unchanged (update does not
\* create); on a stored id update replaces the space and remove makes
\* find_by_id return nothing.
C18_SpaceAdmin ==
    [][\A sp \in SpaceIds :
        /\ \A a \in BOOLEAN :
              update_space(sp, a)
              => IF spaces[sp] = None
                 THEN /\ result' = [op |-> "update_space",
                                    outcome |-> "SpaceNotFoundError",
                                    reservation_id |-> 0]
                      /\ spaces' = spaces
                 ELSE /\ result'.outcome = "ok"
                      /\ space_find_by_id(spaces', sp) =
                            [space_id |-> sp, is_available |-> a]
                      /\ \A o \in SpaceIds \ {sp} : spaces'[o] = spaces[o]
        /\ remove_space(sp)
              => IF spaces[sp] = None
                 THEN /\ result' = [op |-> "remove_space",
                                    outcome |-> "SpaceNotFoundError",
                                    reservation_id |-> 0]
                      /\ spaces' = spaces
                 ELSE /\ result'.outcome = "ok"
                      /\ space_find_by_id(spaces', sp) = None
                      /\ \A o \in SpaceIds \ {sp} : spaces'[o] = spaces[o]
      ]_vars

\* an update was just refused for a space that is not stored
C18_Witness ==
    /\ result.op = "update_space" /\ result.outcome = "SpaceNotFoundError"
    /\ \E sp \in SpaceIds : spaces[sp] = None

\* C20: cancel_reservation checks existence, then ownership, then state: an
\* unknown id gives ReservationNotFoundError whoever calls, a non-owner gets
\* AuthorizationError even on a REJECTED or CANCELLED reservation, and
\* InvalidReservationError is only ever seen by the owner.
C20_CancelOrder ==
    [][\A i \in RIds, u \in Users :
        cancel_reservation(i, u)
        => /\ ~Stored(i) => result'.outcome = "ReservationNotFoundError"
           /\ (Stored(i) /\ reservations[i].user_id # u)
                 => result'.outcome = "AuthorizationError"
           /\ result'.outcome = "InvalidReservationError"
                 => (Stored(i) /\ reservations[i].user_id = u
                               /\ Inert(reservations[i]))
      ]_vars

\* a non-owner's cancel of a rejected or cancelled reservation was just refused
\* for the ownership
C20_Witness ==
    /\ result.op = "cancel" /\ result.outcome = "AuthorizationError"
    /\ Stored(result.reservation_id)
    /\ Inert(reservations[result.reservation_id])

\* C14: is_space_available(space_id, slot) changes no state and fails closed:
\* it returns false when the space is not stored or has is_available = false,
\* and otherwise true exactly when no PENDING or CONFIRMED reservation on that
\* space has an instant in common with the slot.
C14_FailClosed ==
    [][\A sp \in SpaceIds, s \in Times, e \in Times :
        (result'.op = "is_space_available" /\ call_is_space_available(sp, s, e))
        => /\ reservations' = reservations /\ spaces' = spaces
           /\ ~Usable(sp) => result'.value = FALSE
           /\ Usable(sp) => (result'.value = TRUE <=> ~Occupied(sp, s, e))
           /\ result'.value \in BOOLEAN
      ]_vars

\* is_space_available just returned false although the flag of the space is
\* true, and false for a space whose flag is false although nothing occupies it
C14_Witness ==
    /\ result.op = "is_space_available" /\ result.value = FALSE
    /\ \E sp \in SpaceIds :
          /\ Usable(sp)
          /\ \E s \in Times, e \in Times : s < e /\ Occupied(sp, s, e)
    /\ \E sp \in SpaceIds :
          /\ spaces[sp] # None /\ ~spaces[sp].is_available
          /\ \A s \in Times, e \in Times : ~Occupied(sp, s, e)

\* C15: check_availability(slot) returns exactly the stored spaces that have
\* is_available = true and no PENDING or CONFIRMED reservation with an instant
\* in common with the slot, and changes no state.
C15_AvailableSpaces ==
    [][\A s \in Times, e \in Times :
        (result'.op = "check_availability" /\ call_check_availability(s, e))
        => /\ reservations' = reservations /\ spaces' = spaces
           /\ result'.value =
                 {spaces[sp] : sp \in {x \in SpaceIds :
                                          Usable(x) /\ ~Occupied(x, s, e)}}
      ]_vars

\* check_availability just left out a space whose flag is true, and returned
\* another one
C15_Witness ==
    /\ result.op = "check_availability"
    /\ \E sp \in SpaceIds : Usable(sp) /\ spaces[sp] \notin result.value
    /\ result.value # {}

\* C16: get_pending_reservations returns exactly the stored reservations whose
\* status is PENDING: a reservation is in it from the successful reserve call
\* that admitted it until the successful approve, reject or cancel of it, and
\* never afterwards.
C16_PendingQueue ==
    [][/\ (result'.op = "get_pending_reservations" /\ call_get_pending_reservations)
          => /\ reservations' = reservations /\ spaces' = spaces
             /\ result'.value = {reservations[i] : i \in
                                   {j \in RIds : Stored(j) /\ reservations[j].status = PENDING}}
       /\ \A i \in RIds :
             LET before == Stored(i) /\ reservations[i] \in find_by_status(reservations, PENDING)
                 after  == /\ reservations'[i] # None
                           /\ reservations'[i] \in find_by_status(reservations', PENDING)
             IN /\ (~before /\ after)
                      => /\ ~Stored(i)
                         /\ result' = [op |-> "reserve", outcome |-> "ok",
                                       reservation_id |-> i]
                /\ (before /\ ~after)
                      => /\ result'.op \in {"approve", "reject", "cancel"}
                         /\ result'.outcome = "ok"
                         /\ result'.reservation_id = i
                /\ (result'.op \in {"reserve", "approve", "reject", "cancel"}
                      /\ result'.outcome = "ok" /\ result'.reservation_id = i)
                      => (after <=> result'.op = "reserve")
      ]_vars

\* get_pending_reservations just returned one reservation and left out another
\* that has been decided
C16_Witness ==
    /\ result.op = "get_pending_reservations"
    /\ result.value # {}
    /\ \E i \in RIds : Stored(i) /\ reservations[i] \notin result.value

\* C19: the is_available flag is independent of occupancy: reserve, approve,
\* reject and cancel never change the space store, so a space can have
\* is_available = true while is_space_available returns false for a slot.
C19_FlagIndependent ==
    [][/\ result'.op \in {"reserve", "approve", "reject", "cancel"} => spaces' = spaces
       /\ \A u \in Users, sp \in SpaceIds, s \in Times, e \in Times :
             (s < e /\ Usable(sp) /\ ReserveParkingService_execute(u, sp, s, e))
             => spaces'[sp].is_available = TRUE
      ]_vars

\* right after a successful reserve the space's flag is true and
\* is_space_available is false for a slot
C19_Witness ==
    /\ result.op = "reserve" /\ result.outcome = "ok"
    /\ \E sp \in SpaceIds, s \in Times, e \in Times :
          /\ s < e
          /\ spaces[sp] # None /\ spaces[sp].is_available = TRUE
          /\ ~is_space_available(sp, [start_time |-> s, end_time |-> e])

\* C23: remove_space(space_id) succeeds whenever the space is stored, whatever
\* reservations refer to it, and changes no reservation; the status of a
\* reservation only ever changes by a successful approve, reject or cancel of
\* that reservation, so active reservations of a removed space stay active.
C23_OrphansStay ==
    [][/\ \A sp \in SpaceIds :
             (spaces[sp] # None /\ remove_space(sp))
             => /\ result' = [op |-> "remove_space", outcome |-> "ok",
                              reservation_id |-> 0]
                /\ spaces'[sp] = None
                /\ reservations' = reservations
       /\ \A i \in RIds :
             (Stored(i) /\ reservations'[i] # reservations[i])
             => /\ result'.op \in {"approve", "reject", "cancel"}
                /\ result'.outcome = "ok"
                /\ result'.reservation_id = i
      ]_vars

\* a space was just removed and an active reservation still refers to it
C23_Witness ==
    /\ result.op = "remove_space" /\ result.outcome = "ok"
    /\ \E i \in RIds : /\ Stored(i)
                       /\ Active(reservations[i])
                       /\ spaces[reservations[i].space_id] = None

\* C27: admission and the availability query agree: in every state, for every
\* space id and slot, reserve succeeds exactly when is_space_available returns
\* true, and every space check_availability returns for a slot can be reserved
\* for that slot in that state.
C27_AdmissionAgrees ==
    \A sp \in SpaceIds, s \in Times, e \in Times :
        (s < e /\ FreeIds(reservations) # {})
        => \A u \in Users :
              /\ is_space_available(sp, TimeSlot(s, e))
                    <=> ENABLED (/\ ReserveParkingService_execute(u, sp, s, e)
                                 /\ result'.outcome = "ok")
              /\ \A space \in CheckAvailabilityService_execute(TimeSlot(s, e)) :
                    ENABLED (/\ ReserveParkingService_execute(u, space.space_id, s, e)
                             /\ result'.outcome = "ok"
                             /\ reservations'[result'.reservation_id].space_id
                                   = space.space_id)

\* a reserve was just refused for a conflict: the space has its flag set and
\* is_space_available is false for a slot on it, true for a slot on another
C27_Witness ==
    /\ result.op = "reserve" /\ result.outcome = "ReservationConflictError"
    /\ FreeIds(reservations) # {}
    /\ \E sp \in SpaceIds, s \in Times, e \in Times :
          s < e /\ Usable(sp) /\ ~is_space_available(sp, TimeSlot(s, e))
    /\ \E sp \in SpaceIds, s \in Times, e \in Times :
          s < e /\ is_space_available(sp, TimeSlot(s, e))

\* C28: lifecycle operations never consult the space store: the outcome of
\* approve, reject and cancel is decided by the stored reservation alone (its
\* status, and its owner for cancel), whatever has become of its space, and
\* update_space and remove_space leave every reservation as it is.
C28_SpaceBlind ==
    [][/\ \A i \in RIds :
             LET missing == ~Stored(i)
                 decided == IF missing THEN "ReservationNotFoundError"
                            ELSE IF reservations[i].status # PENDING
                                 THEN "InvalidReservationError" ELSE "ok"
             IN /\ \A n \in Notes :
                      approve_reservation(i, n) => result'.outcome = decided
                /\ \A n \in Notes :
                      reject_reservation(i, n) => result'.outcome = decided
                /\ \A u \in Users :
                      cancel_reservation(i, u)
                      => result'.outcome =
                            IF missing THEN "ReservationNotFoundError"
                            ELSE IF reservations[i].user_id # u
                                 THEN "AuthorizationError"
                            ELSE IF Inert(reservations[i])
                                 THEN "InvalidReservationError" ELSE "ok"
       /\ \A sp \in SpaceIds :
             /\ \A a \in BOOLEAN : update_space(sp, a) => reservations' = reservations
             /\ remove_space(sp) => reservations' = reservations
      ]_vars

\* a reservation was just approved although its space is no longer stored
C28_Witness ==
    /\ result.op = "approve" /\ result.outcome = "ok"
    /\ reservations[result.reservation_id].status = CONFIRMED
    /\ spaces[reservations[result.reservation_id].space_id] = None

\* C29: lifecycle operations change only lifecycle fields: a successful approve
\* or reject changes at most status, admin_notes and updated_at, a successful
\* cancel at most status and updated_at (admin_notes are kept); reservation_id,
\* user_id, space_id, time_slot and created_at of a stored reservation never
\* change, and a lifecycle call leaves every other reservation as it is.
C29_FrameOfLifecycle ==
    [][\A i \in RIds :
        Stored(i) =>
           /\ reservations'[i] # None
           /\ DOMAIN reservations'[i] = DOMAIN reservations[i]
           /\ \A f \in {"reservation_id", "user_id", "space_id", "time_slot", "created_at"} :
                 reservations'[i][f] = reservations[i][f]
           /\ (result'.op = "cancel" /\ result'.reservation_id = i)
                 => reservations'[i].admin_notes = reservations[i].admin_notes
           /\ (result'.op \in {"approve", "reject", "cancel"}
                  /\ result'.reservation_id # i)
                 => reservations'[i] = reservations[i]
      ]_vars

\* an approved reservation was just cancelled: its notes are still there and
\* another reservation is stored beside it
C29_Witness ==
    /\ result.op = "cancel" /\ result.outcome = "ok"
    /\ reservations[result.reservation_id].admin_notes = "ok"
    /\ reservations[result.reservation_id].updated_at = 2
    /\ \E j \in RIds : j # result.reservation_id /\ Stored(j)

\* C30: add_space never fails on an id that is already stored: it replaces the
\* stored space, flag included, and leaves every other space and every
\* reservation untouched, so afterwards exactly one space has that id and it
\* is the one given; a space added under an id that active reservations still
\* refer to is blocked by them at once.
C30_AddReplaces ==
    [][\A sp \in SpaceIds, a \in BOOLEAN :
        add_space(sp, a)
        => /\ result' = [op |-> "add_space", outcome |-> "ok", reservation_id |-> 0]
           /\ spaces'[sp] = [space_id |-> sp, is_available |-> a]
           /\ Cardinality({x \in SpaceIds : spaces'[x] # None /\ spaces'[x].space_id = sp}) = 1
           /\ \A o \in SpaceIds \ {sp} : spaces'[o] = spaces[o]
           /\ reservations' = reservations
           /\ \A s \in Times, e \in Times :
                 (s < e /\ Occupied(sp, s, e))
                 => ~ (is_space_available(sp, [start_time |-> s, end_time |-> e]))'
      ]_vars

\* a space was just added with its flag set, and an active reservation made
\* before blocks a slot on it
C30_Witness ==
    /\ result.op = "add_space"
    /\ \E sp \in SpaceIds, s \in Times, e \in Times :
          /\ s < e /\ Usable(sp) /\ Occupied(sp, s, e)
          /\ ~is_space_available(sp, [start_time |-> s, end_time |-> e])

\* C24: the in-memory overlap query and the SQL overlap query agree: for
\* every reachable store, every space id and every slot they return the same
\* reservations (same space, stored.start < query.end and query.start <
\* stored.end), touching boundaries included.
C24_QueriesAgree ==
    \A sp \in SpaceIds, s \in Times, e \in Times :
        s < e =>
           {reservations[i] : i \in find_by_space_and_time(reservations, sp, TimeSlot(s, e))}
              = Postgres_find_by_space_and_time(ReservationDB(reservations), sp, TimeSlot(s, e))

\* two reservations of one space are stored back to back, and the query for
\* the slot of the first returns it without the one that touches it
C24_Witness ==
    \E i \in RIds, j \in RIds :
        /\ Stored(i) /\ Stored(j)
        /\ reservations[i].space_id = reservations[j].space_id
        /\ reservations[i].time_slot.end_time = reservations[j].time_slot.start_time
        /\ Postgres_find_by_space_and_time(ReservationDB(reservations),
                                           reservations[i].space_id,
                                           reservations[i].time_slot)
              = {reservations[i]}

\* C25: find_by_space_and_time(space_id, slot) returns only reservations whose
\* status is PENDING or CONFIRMED: no REJECTED or CANCELLED reservation is in
\* its result.
C25_OnlyActiveReturned ==
    \A sp \in SpaceIds, s \in Times, e \in Times :
        s < e =>
           /\ \A i \in find_by_space_and_time(reservations, sp, TimeSlot(s, e)) :
                 Active(reservations[i])
           /\ \A r \in Postgres_find_by_space_and_time(ReservationDB(reservations),
                                                       sp, TimeSlot(s, e)) :
                 Active(r)

\* C26: the error of an illegal transition is a ValueError: approve or reject
\* of a stored reservation that is not PENDING, and the owner's cancel of one
\* that is REJECTED or CANCELLED, end with an error that is a ValueError.
C26_IllegalIsValueError ==
    [][\A i \in RIds :
        Stored(i) =>
           /\ \A n \in Notes :
                 (reservations[i].status # PENDING /\ approve_reservation(i, n))
                 => IsInstance(result'.outcome, "ValueError")
           /\ \A n \in Notes :
                 (reservations[i].status # PENDING /\ reject_reservation(i, n))
                 => IsInstance(result'.outcome, "ValueError")
           /\ (Inert(reservations[i]) /\ cancel_reservation(i, reservations[i].user_id))
                 => IsInstance(result'.outcome, "ValueError")
      ]_vars

\* C21: with every reserve call run whole (check and create in one step) and
\* the fetch, mutate and write-back steps of approve, reject and cancel calls
\* interleaved on a store that returns copies, no two active reservations of
\* one space have overlapping slots in any reachable state.
C21_NoOverlapInterleaved ==
    \A sp \in SpaceIds, t \in 0..(MaxTime - 1) :
        Cardinality({i \in RIds : /\ Stored(i)
                                  /\ reservations[i].space_id = sp
                                  /\ Active(reservations[i])
                                  /\ reservations[i].time_slot.start_time <= t
                                  /\ t < reservations[i].time_slot.end_time}) <= 1

\* C22: terminal states stay terminal in the store under interleaving: once the
\* stored status of a reservation is REJECTED or CANCELLED, no step of any
\* lifecycle call gives it a different stored status.
C22_TerminalStays ==
    [][\A i \in RIds :
        (Stored(i) /\ Inert(reservations[i]))
        => reservations'[i].status = reservations[i].status
      ]_vars

====
